---- MODULE Spec2Model ----
(***************************************************************************)
(* Model of the Momentum-Trading data fetchers:                            *)
(*   RobustDataFetcher  (src/src/robust_data_fetcher.py)                   *)
(*   SimpleDataFetcher  (src/src/simple_data_fetcher.py)                   *)
(*   SampleDataFetcher  (src/src/sample_data_fetcher.py)                   *)
(*                                                                         *)
(* Prices are fixed-point integers in units of 1/10000 dollar, so that a   *)
(* value below one cent (the 2% band around the 0.01 floor) exists before  *)
(* rounding; stored bar prices are integers in cents, as round(x, 2)       *)
(* leaves them.  Calendar dates are day numbers; day 0 is a Monday.        *)
(***************************************************************************)
EXTENDS Integers, Sequences, FiniteSets, TLC

VARIABLES
    fetcher,   \* the fetcher object of the program: [cls, api_key]
    today,     \* the wall clock, as a day number (datetime.now())
    files,     \* the output directory: file name -> provenance of its content
    rng,       \* state of the process-global numpy generator (np.random)
    salt,      \* the process's string-hash salt (PYTHONHASHSEED)
    last,      \* the most recent call: arguments, what it did, what came back
    gin,       \* generator study: the inputs of one generate_sample_data call
    gout,      \* generator study: its result
    pclock,    \* two processes: the wall clock they share
    psalt,     \* two processes: each process's string-hash salt
    prng,      \* two processes: each process's global numpy generator
    pgen       \* two processes: each process's last generate_sample_data call

vars == <<fetcher, today, files, rng, salt, last, gin, gout, pclock, psalt, prng, pgen>>

(***************************************************************************)
(* Bounds of the model                                                     *)
(***************************************************************************)
MaxDays == 2        \* largest lookback `days` passed to a direct generator call
MaxSymbols == 2     \* longest symbol list passed to get_multiple_symbols
MaxSalt == 1        \* string-hash salts range over 0..MaxSalt
RngMod == 3         \* number of states of the modelled pseudo-random generator
MaxClock == 1       \* two processes: the clock advances from 0 up to MaxClock

(***************************************************************************)
(* Program constants                                                       *)
(***************************************************************************)
DefaultKey == "XOLA7URKC6PQJEXY"
DemoKey == "demo"
PrivateKey == "PRIVATEKEY123456"
BasePriceSPY == 1000000     \* 100.0
BasePriceOther == 1500000   \* 150.0
BasePriceSample == 1000000  \* 100.0
PriceFloor == 100           \* 0.01
CentUnits == 100            \* round(x, 2): one cent in price units
VolatilityPct == 2          \* price * 0.02
VolumeLow == 1000000
VolumeHigh == 10000000
SeedMod == 1000             \* hash(symbol) % 1000
SampleSeed == 42            \* np.random.seed(42)
FallbackDays == 252         \* generate_sample_data(symbol, days=252)
CutoffDays == 365           \* timedelta(days=365)
SleepSeconds == 12          \* time.sleep(12)
WeekLen == 7
FirstWeekendDay == 5        \* date_range.weekday < 5

Symbols == {"SPY", "AAPL"}
\* A series (DataFrame) is identified by what determines its rows: a real one
\* by the set of its dates, a synthetic one by the window, base price and
\* seeded generator state it was generated from (BarsOf gives its rows).
\* NoSeries stands for None.
NoSeries == [source |-> "none", dates |-> {}, start |-> 0, end |-> 0, base |-> 0, seed |-> 0]
RealSeries(dates) ==
    [source |-> "real", dates |-> dates, start |-> 0, end |-> 0, base |-> 0, seed |-> 0]
SyntheticSeries(start, end, base_price, s0) ==
    [source |-> "synthetic", dates |-> {}, start |-> start, end |-> end,
     base |-> base_price, seed |-> s0]

Max2(a, b) == IF a >= b THEN a ELSE b
Min2(a, b) == IF a <= b THEN a ELSE b
Max3(a, b, c) == Max2(Max2(a, b), c)
Min3(a, b, c) == Min2(Min2(a, b), c)

(***************************************************************************)
(* round(x, 2): nearest cent, ties to the even cent.  The result is in     *)
(* cents.                                                                  *)
(***************************************************************************)
Round2(x) ==
    LET q == x \div CentUnits
        r == x % CentUnits
    IN  IF 2 * r < CentUnits THEN q
        ELSE IF 2 * r > CentUnits THEN q + 1
        ELSE IF q % 2 = 0 THEN q ELSE q + 1

(***************************************************************************)
(* pd.date_range(start=now - days, end=now, freq='D') filtered to          *)
(* weekday < 5: the weekdays among start, start+1, ..., end, in order.     *)
(***************************************************************************)
Weekday(d) == d % WeekLen

IsWeekday(d) == Weekday(d) < FirstWeekendDay

DateRange(start, end) ==
    SelectSeq([i \in 1 .. (end - start + 1) |-> start + i - 1], IsWeekday)

\* len(date_range): every full week of the window holds five weekdays
WeekdayCount(start, end) ==
    IF start > end THEN 0
    ELSE ((end - start + 1) \div WeekLen) * FirstWeekendDay
         + Cardinality({d \in start .. (start + ((end - start + 1) % WeekLen) - 1) :
                          IsWeekday(d)})

(***************************************************************************)
(* The global pseudo-random generator, as a counter-based generator: its   *)
(* state is a residue, seeding sets the state from the seed, every draw    *)
(* advances it by one, and the value a draw returns is read off the state. *)
(***************************************************************************)
RngStates == 0 .. (RngMod - 1)
RngSeed(seed) == seed % RngMod
RngNext(s) == (s + 1) % RngMod
\* the state after k draws
RngAfter(s, k) == (s + k) % RngMod

\* daily returns in percent: np.random.normal(0.0005, 0.02) has unbounded
\* support, so a return of -100% and beyond is a possible draw
ReturnVals == <<0, -3, 2, -100, 1, -50, 3, -1>>
\* np.random.uniform(0, volatility) as a percentage of volatility, in [0, 100)
OffsetVals == <<0, 50, 99>>
\* np.random.randint(1000000, 10000000): low inclusive, high exclusive
VolumeVals == <<VolumeLow, VolumeHigh - 1>>

Pick(vals, s) == vals[(s % Len(vals)) + 1]

(***************************************************************************)
(* generate_sample_data, "Calculate prices": prices = [base_price], then   *)
(* one price per return of daily_returns[1:], floored at 0.01.             *)
(***************************************************************************)
NextPrice(last_price, ret) == Max2((last_price * (100 + ret)) \div 100, PriceFloor)

\* PricesFrom(last_price, rets, lo, hi): the prices the loop appends for
\* rets[lo..hi] when the list ends in last_price before them.  The loop is
\* unrolled by halves, which keeps the evaluation shallow.
RECURSIVE PricesFrom(_, _, _, _)
PricesThen(left, rets, lo, hi) == left \o PricesFrom(left[Len(left)], rets, lo, hi)

PricesFrom(last_price, rets, lo, hi) ==
    IF lo > hi THEN <<>>
    ELSE IF lo = hi THEN <<NextPrice(last_price, rets[lo])>>
    ELSE PricesThen(PricesFrom(last_price, rets, lo, (lo + hi) \div 2), rets,
                    ((lo + hi) \div 2) + 1, hi)

Prices(base_price, rets) == <<base_price>> \o PricesFrom(base_price, rets, 2, Len(rets))

(***************************************************************************)
(* generate_sample_data, "Generate OHLC data": one bar.  hiPct and loPct   *)
(* are the two uniform draws as percentages of volatility.                 *)
(***************************************************************************)
HighOfMissingOpen(high, open_price, price) == Max2(high, price)

\* `high = max(high, open_price, price)`
WidenHigh(high, open_price, price) == Max3(high, open_price, price)

\* `low = min(low, open_price, price)`
WidenLow(low, open_price, price) == Min3(low, open_price, price)

Bar(date, prices, i, hiPct, loPct, volume) ==
    LET price == prices[i]
        volatility == (price * VolatilityPct) \div 100
        high0 == price + (volatility * hiPct) \div 100
        low0 == price - (volatility * loPct) \div 100
        open_price == IF i > 1 THEN prices[i - 1] ELSE price
    IN  [Date |-> date,
         Open |-> Round2(open_price),
         High |-> Round2(WidenHigh(high0, open_price, price)),
         Low |-> Round2(WidenLow(low0, open_price, price)),
         Close |-> Round2(price),
         Volume |-> volume]

\* zip(date_range, prices): as many bars as the shorter of the two
BarsOfPrices(dates, prices, his, los, vols) ==
    [i \in 1 .. Min2(Len(dates), Len(prices)) |->
        Bar(dates[i], prices, i, his[i], los[i], vols[i])]

Bars(dates, base_price, rets, his, los, vols) ==
    BarsOfPrices(dates, Prices(base_price, rets), his, los, vols)

(***************************************************************************)
(* The draws of one generator call, in the order the code makes them: n    *)
(* normal draws, then per bar a uniform (high), a uniform (low) and a      *)
(* randint (volume).  s0 is the generator state right after seeding.       *)
(***************************************************************************)
DrawnReturns(s0, n) == [i \in 1 .. n |-> Pick(ReturnVals, RngAfter(s0, i))]
DrawnHighs(s0, n) == [i \in 1 .. n |-> Pick(OffsetVals, RngAfter(s0, n + 3 * (i - 1) + 1))]
DrawnLows(s0, n) == [i \in 1 .. n |-> Pick(OffsetVals, RngAfter(s0, n + 3 * (i - 1) + 2))]
DrawnVolumes(s0, n) == [i \in 1 .. n |-> Pick(VolumeVals, RngAfter(s0, n + 3 * (i - 1) + 3))]

SeededBars(dates, base_price, s0) ==
    Bars(dates, base_price, DrawnReturns(s0, Len(dates)), DrawnHighs(s0, Len(dates)),
         DrawnLows(s0, Len(dates)), DrawnVolumes(s0, Len(dates)))

\* the global generator after the 4 * n draws of a call
RngAfterGenerate(s0, n) == RngAfter(s0, 4 * n)

RealBar(date) == [Date |-> date, Open |-> 10000, High |-> 10100, Low |-> 9900,
                  Close |-> 10050, Volume |-> VolumeLow]

\* df.sort_index(): the rows in increasing date order
RECURSIVE SortedBars(_)
SortedBars(dates) ==
    IF dates = {} THEN <<>>
    ELSE LET d == CHOOSE x \in dates : \A y \in dates : x <= y
         IN  <<RealBar(d)>> \o SortedBars(dates \ {d})

\* the rows of a series
BarsOf(series) ==
    IF series.source = "synthetic"
    THEN SeededBars(DateRange(series.start, series.end), series.base, series.seed)
    ELSE SortedBars(series.dates)

(***************************************************************************)
(* hash(symbol): Python salts the hash of a str per process unless         *)
(* PYTHONHASHSEED fixes it; the value mixes the characters with the salt.  *)
(***************************************************************************)
\* the sum of the symbol's character codes
SymCode(symbol) == IF symbol = "SPY" THEN 252 ELSE IF symbol = "AAPL" THEN 286 ELSE 0
StrHash(symbol, hashsalt) == SymCode(symbol) * 31 + hashsalt * 7

\* `hash(symbol) % 1000`
RobustSeed(symbol, hashsalt) == StrHash(symbol, hashsalt) % SeedMod

(***************************************************************************)
(* RobustDataFetcher.generate_sample_data(symbol, days) at wall-clock day  *)
(* `now` in a process whose hash salt is `hashsalt`: the series returned   *)
(* and the state it leaves the global generator in.                        *)
(***************************************************************************)
RobustGenerateSampleData(symbol, days, now, hashsalt) ==
    [series |-> SyntheticSeries(now - days, now,
                                IF symbol = "SPY" THEN BasePriceSPY ELSE BasePriceOther,
                                RngSeed(RobustSeed(symbol, hashsalt))),
     rng |-> RngAfterGenerate(RngSeed(RobustSeed(symbol, hashsalt)),
                              WeekdayCount(now - days, now))]

(***************************************************************************)
(* SampleDataFetcher.generate_sample_data(symbol, start_date, end_date,    *)
(* days), without its save: start and end default to now - days and now.   *)
(* An argument is a set: {} for None, {d} for the date d.                  *)
(***************************************************************************)
SampleStart(start_date, days, now) ==
    IF start_date = {} THEN now - days ELSE CHOOSE d \in start_date : TRUE
SampleEnd(end_date, now) ==
    IF end_date = {} THEN now ELSE CHOOSE d \in end_date : TRUE

SampleGenerateSeries(symbol, start_date, end_date, days, now) ==
    [series |-> SyntheticSeries(SampleStart(start_date, days, now), SampleEnd(end_date, now),
                                BasePriceSample, RngSeed(SampleSeed)),
     rng |-> RngAfterGenerate(RngSeed(SampleSeed),
                 WeekdayCount(SampleStart(start_date, days, now), SampleEnd(end_date, now)))]

(***************************************************************************)
(* The provider's answer to one GET, as far as the parsing code tells      *)
(* answers apart.  A time series is given by the ages, in days before      *)
(* now, of its rows.                                                       *)
(***************************************************************************)
FailureKinds == {"connection_error", "http_status", "invalid_json",
                 "error_message", "note", "no_time_series", "bad_columns"}
Responses == {[kind |-> k, ages |-> {}] : k \in FailureKinds}
             \cup {[kind |-> "time_series", ages |-> a] : a \in {{400}, {1, 2}}}
\* the answers a multi-symbol call is tried with
MultiResponses == {[kind |-> "note", ages |-> {}], [kind |-> "time_series", ages |-> {1, 2}]}

(***************************************************************************)
(* The request and parse of fetch_real_data / SimpleDataFetcher.fetch_data *)
(* up to the emptiness test: the frame, or NoSeries for None.  Every       *)
(* exception of the try block ends in `return None`.                       *)
(***************************************************************************)
\* `df[df.index >= cutoff_date]`, cutoff_date = now - 365 days, later than
\* midnight of that day
KeptAges(period, ages) ==
    IF period = "1y" THEN {a \in ages : a < CutoffDays} ELSE ages

FetchRealData(symbol, period, resp, now) ==
    IF resp.kind \in {"connection_error", "http_status", "invalid_json"} THEN NoSeries
    ELSE IF resp.kind = "error_message" THEN NoSeries
    ELSE IF resp.kind = "note" THEN NoSeries
    ELSE IF resp.kind = "no_time_series" \/ resp.ages = {} THEN NoSeries
    ELSE IF resp.kind = "bad_columns" THEN NoSeries
    ELSE IF KeptAges(period, resp.ages) = {} THEN NoSeries
    ELSE RealSeries({now - a : a \in KeptAges(period, resp.ages)})

(***************************************************************************)
(* The output directory.  A file name is <symbol>_<date>.csv or            *)
(* <symbol>_sample_<date>.csv; a file's content is abstracted to the       *)
(* provenance of the series written to it.                                 *)
(***************************************************************************)
PlainName(symbol, now) == [symbol |-> symbol, sample |-> FALSE, date |-> now]
SampleName(symbol, now) == [symbol |-> symbol, sample |-> TRUE, date |-> now]

\* df.to_csv(filename): creates or overwrites
ToCsv(fs, name, df) ==
    [f \in DOMAIN fs \cup {name} |-> IF f = name THEN df.source ELSE fs[f]]

Ev(k, symbol, what) == [k |-> k, symbol |-> symbol, ev |-> what]

\* what one call did: how it ended, what it returned, what fetch_real_data
\* had returned, the files and generator it leaves, the seconds slept, and
\* its steps in order
Effect(outcome, error, result, real, fs, g, slept, events) ==
    [outcome |-> outcome, error |-> error, result |-> result, real |-> real,
     files |-> fs, rng |-> g, slept |-> slept, events |-> events]

(***************************************************************************)
(* RobustDataFetcher.fetch_data                                            *)
(***************************************************************************)
\* the file the series is saved under
RobustFileName(symbol, df, now) == PlainName(symbol, now)

FallbackAlways(real, fallback_to_sample) == fallback_to_sample

FallbackIgnoringFlag(real, fallback_to_sample) == real = NoSeries

\* `if df is None and fallback_to_sample`
RobustFallsBack(real, fallback_to_sample) == real = NoSeries /\ fallback_to_sample

\* `if self.api_key and 'XOLA7URKC6PQJEXY' in self.api_key`
RobustRateLimited(api_key) == api_key \in {DefaultKey}

\* from `if df is not None` on; gen is what the fallback produced (or the
\* real frame and the untouched generator when there was no fallback)
RobustSaveAndSleep(real, gen, ev1, sleeps, symbol, disk_ok, now, fs, k) ==
    IF gen.series = NoSeries
    THEN Effect("return", "", NoSeries, real, fs, gen.rng, 0, ev1)
    ELSE IF ~disk_ok
    THEN Effect("raise", "OSError", NoSeries, real, fs, gen.rng, 0,
                ev1 \o <<Ev(k, symbol, "save_failed")>>)
    ELSE Effect("return", "", gen.series, real,
                ToCsv(fs, RobustFileName(symbol, gen.series, now), gen.series),
                gen.rng,
                IF sleeps THEN SleepSeconds ELSE 0,
                ev1 \o <<Ev(k, symbol, "save")>>
                    \o (IF sleeps THEN <<Ev(k, symbol, "sleep")>> ELSE <<>>))

RobustAfterRealFetch(real, api_key, symbol, fallback_to_sample, disk_ok, now, fs, g, hs, k) ==
    IF RobustFallsBack(real, fallback_to_sample)
    THEN RobustSaveAndSleep(real, RobustGenerateSampleData(symbol, FallbackDays, now, hs),
                            <<Ev(k, symbol, "http"), Ev(k, symbol, "generate")>>,
                            RobustRateLimited(api_key), symbol, disk_ok, now, fs, k)
    ELSE RobustSaveAndSleep(real, [series |-> real, rng |-> g],
                            <<Ev(k, symbol, "http")>>,
                            RobustRateLimited(api_key), symbol, disk_ok, now, fs, k)

RobustFetchData(api_key, symbol, period, fallback_to_sample, resp, disk_ok, now, fs, g, hs, k) ==
    RobustAfterRealFetch(FetchRealData(symbol, period, resp, now), api_key, symbol,
                         fallback_to_sample, disk_ok, now, fs, g, hs, k)

(***************************************************************************)
(* SimpleDataFetcher.fetch_data: request, parse, save and sleep all inside *)
(* one try block whose handler returns None.                               *)
(***************************************************************************)
\* `if self.api_key == 'demo'`
SimpleRateLimited(api_key) == api_key = DemoKey

SimpleAfterParse(real, sleeps, symbol, disk_ok, now, fs, g, k) ==
    IF real = NoSeries
    THEN Effect("return", "", NoSeries, real, fs, g, 0, <<Ev(k, symbol, "http")>>)
    ELSE IF ~disk_ok
    THEN Effect("return", "", NoSeries, real, fs, g, 0,
                <<Ev(k, symbol, "http"), Ev(k, symbol, "save_failed")>>)
    ELSE Effect("return", "", real, real, ToCsv(fs, PlainName(symbol, now), real), g,
                IF sleeps THEN SleepSeconds ELSE 0,
                <<Ev(k, symbol, "http"), Ev(k, symbol, "save")>>
                    \o (IF sleeps THEN <<Ev(k, symbol, "sleep")>> ELSE <<>>))

SimpleFetchData(api_key, symbol, period, resp, disk_ok, now, fs, g, k) ==
    SimpleAfterParse(FetchRealData(symbol, period, resp, now), SimpleRateLimited(api_key),
                     symbol, disk_ok, now, fs, g, k)

(***************************************************************************)
(* SampleDataFetcher.generate_sample_data: generate, then save under the   *)
(* _sample_ name.                                                          *)
(***************************************************************************)
SampleSave(gen, symbol, disk_ok, now, fs, k) ==
    IF ~disk_ok
    THEN Effect("raise", "OSError", NoSeries, NoSeries, fs, gen.rng, 0,
                <<Ev(k, symbol, "generate"), Ev(k, symbol, "save_failed")>>)
    ELSE Effect("return", "", gen.series, NoSeries,
                ToCsv(fs, SampleName(symbol, now), gen.series), gen.rng, 0,
                <<Ev(k, symbol, "generate"), Ev(k, symbol, "save")>>)

SampleGenerateSampleData(symbol, start_date, end_date, days, disk_ok, now, fs, k) ==
    SampleSave(SampleGenerateSeries(symbol, start_date, end_date, days, now),
               symbol, disk_ok, now, fs, k)

(***************************************************************************)
(* get_multiple_symbols: the loop over the symbols, one call per symbol,   *)
(* each call starting from the files and generator state the previous one  *)
(* left.  acc is what the loop has built so far.                           *)
(***************************************************************************)
EmptyMap == [s \in {} |-> NoSeries]
EmptyAcc(fs, g) == [outcome |-> "return", error |-> "", data |-> EmptyMap, files |-> fs,
                    rng |-> g, slept |-> 0, events |-> <<>>]

PutKey(data, symbol, df) ==
    [s \in DOMAIN data \cup {symbol} |-> IF s = symbol THEN df ELSE data[s]]

\* one iteration: r is what the call for symbols[k] did; keeps says whether
\* its result is stored under data[symbol].  An exception ends the loop.
Collect(acc, k, symbol, r, keeps) ==
    IF r.outcome = "raise"
    THEN [outcome |-> "raise", error |-> r.error, data |-> acc.data, files |-> r.files,
          rng |-> r.rng, slept |-> acc.slept + r.slept, events |-> acc.events \o r.events]
    ELSE [outcome |-> "return", error |-> "",
          data |-> IF keeps THEN PutKey(acc.data, symbol, r.result) ELSE acc.data,
          files |-> r.files,
          rng |-> r.rng,
          slept |-> acc.slept + r.slept,
          events |-> acc.events \o r.events
                     \o <<Ev(k, symbol, IF r.result # NoSeries THEN "data" ELSE "none")>>]

KeepsEverything(df) == TRUE

\* RobustDataFetcher: `if df is not None: data[symbol] = df`
RobustKeeps(df) == df # NoSeries

\* SimpleDataFetcher: `if df is not None: data[symbol] = df`
SimpleKeeps(df) == df # NoSeries

\* SampleDataFetcher: `data[symbol] = df`
SampleKeeps(df) == TRUE

RobustCollect(acc, k, symbol, r) == Collect(acc, k, symbol, r, RobustKeeps(r.result))

SimpleCollect(acc, k, symbol, r) == Collect(acc, k, symbol, r, SimpleKeeps(r.result))

SampleCollect(acc, k, symbol, r) == Collect(acc, k, symbol, r, SampleKeeps(r.result))

RECURSIVE RobustGetMultipleFrom(_, _, _)
RobustGetMultipleFrom(k, acc, in) ==
    IF k > Len(in.symbols) \/ acc.outcome = "raise" THEN acc
    ELSE RobustGetMultipleFrom(k + 1,
             RobustCollect(acc, k, in.symbols[k],
                     RobustFetchData(in.api_key, in.symbols[k], in.period, TRUE,
                                     in.resps[k], in.disk_ok, in.now, acc.files, acc.rng,
                                     in.hs, k)),
             in)

RobustGetMultipleSymbols(in, fs, g) == RobustGetMultipleFrom(1, EmptyAcc(fs, g), in)

RECURSIVE SimpleGetMultipleFrom(_, _, _)
SimpleGetMultipleFrom(k, acc, in) ==
    IF k > Len(in.symbols) \/ acc.outcome = "raise" THEN acc
    ELSE SimpleGetMultipleFrom(k + 1,
             SimpleCollect(acc, k, in.symbols[k],
                     SimpleFetchData(in.api_key, in.symbols[k], "1y", in.resps[k],
                                     in.disk_ok, in.now, acc.files, acc.rng, k)),
             in)

SimpleGetMultipleSymbols(in, fs, g) == SimpleGetMultipleFrom(1, EmptyAcc(fs, g), in)

RECURSIVE SampleGetMultipleFrom(_, _, _)
SampleGetMultipleFrom(k, acc, in) ==
    IF k > Len(in.symbols) \/ acc.outcome = "raise" THEN acc
    ELSE SampleGetMultipleFrom(k + 1,
             SampleCollect(acc, k, in.symbols[k],
                     SampleGenerateSampleData(in.symbols[k], {}, {}, in.days,
                                              in.disk_ok, in.now, acc.files, k)),
             in)

SampleGetMultipleSymbols(in, fs, g) == SampleGetMultipleFrom(1, EmptyAcc(fs, g), in)

(***************************************************************************)
(* The program: one fetcher object in one process                          *)
(***************************************************************************)
\* `self.api_key = api_key or 'XOLA7URKC6PQJEXY'`
ResolveKey(api_key) == IF api_key = "None" THEN DefaultKey ELSE api_key

Fetchers ==
    {[cls |-> "Robust", api_key |-> ResolveKey(a)] : a \in {"None", PrivateKey}}
    \cup {[cls |-> "Simple", api_key |-> ResolveKey(a)] : a \in {"None", DemoKey, PrivateKey}}
    \cup {[cls |-> "Sample", api_key |-> "None"]}

SymbolLists == UNION {[1 .. n -> Symbols] : n \in 0 .. MaxSymbols}

\* the record of a call kept in `last`
Call(op, symbols, fallback, outcome, error, result, real, data, slept, events) ==
    [op |-> op, symbols |-> symbols, fallback |-> fallback, outcome |-> outcome,
     error |-> error, result |-> result, real |-> real, data |-> data, slept |-> slept,
     events |-> events]

SingleCall(op, symbol, fallback, r) ==
    Call(op, <<symbol>>, fallback, r.outcome, r.error, r.result, r.real, EmptyMap,
         r.slept, r.events)

MultiCall(symbols, fallback, r) ==
    Call("get_multiple_symbols", symbols, fallback, r.outcome, r.error, NoSeries, NoSeries,
         r.data, r.slept, r.events)

NoCall(op) == Call(op, <<>>, FALSE, "return", "", NoSeries, NoSeries, EmptyMap, 0, <<>>)

\* simple_data_fetcher.py imports no numpy: its program has no global
\* generator; only RobustDataFetcher hashes a string
UsesGenerator(f) == f.cls \in {"Robust", "Sample"}
HashesSymbols(f) == f.cls = "Robust"

\* the variables of the generator study and of the two-process study are
\* not used by the program's specification, and conversely
IdleGen == gin = "unused" /\ gout = "unused"
IdleProcs == pclock = 0 /\ psalt = "unused" /\ prng = "unused" /\ pgen = "unused"
IdleProgram == /\ fetcher = "unused" /\ today = 0 /\ files = "unused" /\ rng = 0
               /\ salt = 0 /\ last = "unused"

Init ==
    /\ fetcher \in Fetchers
    /\ today = 0
    /\ files = [f \in {} |-> "none"]
    /\ rng \in (IF UsesGenerator(fetcher) THEN RngStates ELSE {0})
    /\ salt \in (IF HashesSymbols(fetcher) THEN 0 .. MaxSalt ELSE {0})
    /\ last = NoCall("init")
    /\ IdleGen
    /\ IdleProcs

Frame == UNCHANGED <<fetcher, today, salt, gin, gout, pclock, psalt, prng, pgen>>

RobustFetch ==
    /\ fetcher.cls = "Robust"
    /\ \E symbol \in Symbols, period \in {"1y", "max"}, fallback \in BOOLEAN,
          resp \in Responses, disk_ok \in BOOLEAN :
       \E r \in {RobustFetchData(fetcher.api_key, symbol, period, fallback, resp,
                                 disk_ok, today, files, rng, salt, 1)} :
         /\ files' = r.files
         /\ rng' = r.rng
         /\ last' = SingleCall("fetch_data", symbol, fallback, r)
    /\ Frame

RobustGenerate ==
    /\ fetcher.cls = "Robust"
    /\ \E symbol \in Symbols, days \in 1 .. MaxDays :
       \E gen \in {RobustGenerateSampleData(symbol, days, today, salt)} :
         /\ rng' = gen.rng
         /\ last' = Call("generate_sample_data", <<symbol>>, FALSE, "return", "",
                         gen.series, NoSeries, EmptyMap, 0, <<Ev(1, symbol, "generate")>>)
    /\ UNCHANGED files
    /\ Frame

RobustGetMultiple ==
    /\ fetcher.cls = "Robust"
    /\ \E symbols \in SymbolLists :
       \E resps \in [1 .. Len(symbols) -> MultiResponses], disk_ok \in BOOLEAN :
       \E r \in {RobustGetMultipleSymbols(
                    [api_key |-> fetcher.api_key, symbols |-> symbols, period |-> "1y",
                     resps |-> resps, disk_ok |-> disk_ok, now |-> today, hs |-> salt],
                    files, rng)} :
         /\ files' = r.files
         /\ rng' = r.rng
         /\ last' = MultiCall(symbols, TRUE, r)
    /\ Frame

SimpleFetch ==
    /\ fetcher.cls = "Simple"
    /\ \E symbol \in Symbols, period \in {"1y", "max"}, resp \in Responses,
          disk_ok \in BOOLEAN :
       \E r \in {SimpleFetchData(fetcher.api_key, symbol, period, resp, disk_ok,
                                 today, files, rng, 1)} :
         /\ files' = r.files
         /\ rng' = r.rng
         /\ last' = SingleCall("fetch_data", symbol, FALSE, r)
    /\ Frame

SimpleGetMultiple ==
    /\ fetcher.cls = "Simple"
    /\ \E symbols \in SymbolLists :
       \E resps \in [1 .. Len(symbols) -> MultiResponses], disk_ok \in BOOLEAN :
       \E r \in {SimpleGetMultipleSymbols(
                    [api_key |-> fetcher.api_key, symbols |-> symbols,
                     resps |-> resps, disk_ok |-> disk_ok, now |-> today],
                    files, rng)} :
         /\ files' = r.files
         /\ rng' = r.rng
         /\ last' = MultiCall(symbols, FALSE, r)
    /\ Frame

SampleGenerate ==
    /\ fetcher.cls = "Sample"
    /\ \E symbol \in Symbols, days \in 1 .. MaxDays, disk_ok \in BOOLEAN,
          start_date \in {{}, {today - 1}, {today + 1}}, end_date \in {{}, {today}} :
       \E r \in {SampleGenerateSampleData(symbol, start_date, end_date, days, disk_ok,
                                          today, files, 1)} :
         /\ files' = r.files
         /\ rng' = r.rng
         /\ last' = SingleCall("generate_sample_data", symbol, FALSE, r)
    /\ Frame

SampleGetMultiple ==
    /\ fetcher.cls = "Sample"
    /\ \E symbols \in SymbolLists, days \in 1 .. MaxDays, disk_ok \in BOOLEAN :
       \E r \in {SampleGetMultipleSymbols(
                    [symbols |-> symbols, days |-> days, disk_ok |-> disk_ok, now |-> today],
                    files, rng)} :
         /\ files' = r.files
         /\ rng' = r.rng
         /\ last' = MultiCall(symbols, FALSE, r)
    /\ Frame

\* some other code of the process draws from the global generator
OtherRandomUser ==
    /\ UsesGenerator(fetcher)
    /\ rng' = RngNext(rng)
    /\ last' = NoCall("other_draw")
    /\ UNCHANGED files
    /\ Frame

Next ==
    \/ RobustFetch
    \/ RobustGenerate
    \/ RobustGetMultiple
    \/ SimpleFetch
    \/ SimpleGetMultiple
    \/ SampleGenerate
    \/ SampleGetMultiple
    \/ OtherRandomUser

Spec == Init /\ [][Next]_vars

(***************************************************************************)
(* The generator on its own: one call of generate_sample_data with the     *)
(* values of its draws left free, at any day of the week.                  *)
(***************************************************************************)
GenReturns == {-100, -50, 3}
GenOffsets == {0, 99}

\* generate_sample_data of either class, its draws given
GenerateWithDraws(cls, symbol, days, now, rets, his, los, vols) ==
    Bars(DateRange(now - days, now),
         IF cls = "Sample" THEN BasePriceSample
         ELSE IF symbol = "SPY" THEN BasePriceSPY ELSE BasePriceOther,
         rets, his, los, vols)

GenInputs(cls, symbol, days, now) ==
    {[cls |-> cls, symbol |-> symbol, days |-> days, now |-> now,
      rets |-> r, his |-> h, los |-> l]
        : r \in [1 .. WeekdayCount(now - days, now) -> GenReturns],
          h \in [1 .. WeekdayCount(now - days, now) -> GenOffsets],
          l \in [1 .. WeekdayCount(now - days, now) -> GenOffsets]}

GenInit ==
    /\ \E cls \in {"Robust", "Sample"}, symbol \in Symbols, days \in 1 .. MaxDays,
          now \in 0 .. (WeekLen - 1) :
         gin \in GenInputs(cls, symbol, days, now)
    /\ gout = [done |-> FALSE, bars |-> <<>>]
    /\ IdleProgram
    /\ IdleProcs

GenFrame == UNCHANGED <<fetcher, today, files, rng, salt, last, gin, pclock, psalt, prng, pgen>>

GenApply(cls) ==
    /\ gin.cls = cls
    /\ ~gout.done
    /\ gout' = [done |-> TRUE,
                bars |-> GenerateWithDraws(gin.cls, gin.symbol, gin.days, gin.now,
                                           gin.rets, gin.his, gin.los,
                                           [i \in DOMAIN gin.rets |-> VolumeLow])]
    /\ GenFrame

GenRobust == GenApply("Robust")
GenSample == GenApply("Sample")

GenNext == GenRobust \/ GenSample

GenSpec == GenInit /\ [][GenNext]_vars

(***************************************************************************)
(* Two processes, each with its own hash salt and its own global           *)
(* generator, calling RobustDataFetcher.generate_sample_data under one     *)
(* wall clock.                                                             *)
(***************************************************************************)
Procs == {1, 2}
NoGen == [called |-> FALSE, symbol |-> "", days |-> 0, bars |-> <<>>]

ProcInit ==
    /\ pclock = 0
    /\ psalt \in [Procs -> 0 .. MaxSalt]
    /\ prng \in [Procs -> RngStates]
    /\ pgen = [p \in Procs |-> NoGen]
    /\ IdleProgram
    /\ IdleGen

ProcFrame == UNCHANGED <<fetcher, today, files, rng, salt, last, gin, gout>>

ProcGenerate(p) ==
    /\ \E symbol \in Symbols, days \in 1 .. MaxDays :
       \E gen \in {RobustGenerateSampleData(symbol, days, pclock, psalt[p])} :
         /\ prng' = [prng EXCEPT ![p] = gen.rng]
         /\ pgen' = [pgen EXCEPT ![p] = [called |-> TRUE, symbol |-> symbol,
                                         days |-> days, bars |-> BarsOf(gen.series)]]
    /\ UNCHANGED <<pclock, psalt>>
    /\ ProcFrame

ClockTick ==
    /\ pclock < MaxClock
    /\ pclock' = pclock + 1
    /\ UNCHANGED <<psalt, prng, pgen>>
    /\ ProcFrame

ProcNext == (\E p \in Procs : ProcGenerate(p)) \/ ClockTick

ProcSpec == ProcInit /\ [][ProcNext]_vars

(***************************************************************************)
(* Properties                                                              *)
(***************************************************************************)
HasEvent(l, what) == \E i \in DOMAIN l.events : l.events[i].ev = what
Range(f) == {f[i] : i \in DOMAIN f}
IsRobustFetch == fetcher.cls = "Robust" /\ last.op = "fetch_data"

\* C1: RobustDataFetcher.fetch_data with fallback enabled never runs the
\* generator when fetch_real_data returned a frame, and whenever it returns
\* it returns a frame, never None: the real frame itself when there is one,
\* and a synthetic one exactly when fetch_real_data returned None.
C1_FallbackIffRealIsNone ==
    (IsRobustFetch /\ last.fallback) =>
        /\ (last.real # NoSeries => ~HasEvent(last, "generate"))
        /\ (last.outcome = "return" =>
              /\ last.result # NoSeries
              /\ (last.result.source = "synthetic" <=> last.real = NoSeries)
              /\ (last.real # NoSeries => last.result = last.real)
              /\ (last.real = NoSeries => HasEvent(last, "generate")))

C1_Witness ==
    /\ IsRobustFetch /\ last.fallback /\ last.outcome = "return"
    /\ last.real = NoSeries /\ last.result.source = "synthetic"
    /\ HasEvent(last, "generate")

\* a fetch_data call whose real fetch came back null and that has no fallback
NoDataNoFallback == last.op = "fetch_data" /\ last.real = NoSeries /\ ~last.fallback

\* C2 as stated: when the real fetch yields null and there is no fallback,
\* fetch_data signals EmptyResultError instead of returning.
C2_SignalsEmptyResultError ==
    NoDataNoFallback => (last.outcome = "raise" /\ last.error = "EmptyResultError")

\* C2 as amended: when the real fetch yields null and there is no fallback,
\* fetch_data completes normally and returns None; nothing is raised.
C2_ReturnsNone ==
    NoDataNoFallback => (last.outcome = "return" /\ last.error = "" /\ last.result = NoSeries)

C2_Witness ==
    /\ IsRobustFetch /\ NoDataNoFallback
    /\ last.outcome = "return" /\ last.result = NoSeries /\ ~HasEvent(last, "generate")

\* C3: generate_sample_data returns a non-empty series for every symbol and
\* every lookback days >= 1, whatever the day of the call.
C3_NonEmptySeries ==
    (gout.done /\ gin.days >= 1) => Len(gout.bars) >= 1

BarOk(b) == b.Low <= b.Open /\ b.Open <= b.High /\ b.Low <= b.Close /\ b.Close <= b.High

\* C4: every bar generate_sample_data emits satisfies Low <= Open <= High and
\* Low <= Close <= High on the rounded values it stores, for every sequence
\* of drawn returns and offsets, the ones reaching the 0.01 floor included.
C4_OhlcInvariant ==
    gout.done => \A i \in DOMAIN gout.bars : BarOk(gout.bars[i])

\* a bar whose close sits on the floor after a fall, and whose low was drawn
\* below the close before rounding
C4_Witness ==
    /\ gout.done
    /\ \E i \in DOMAIN gout.bars :
         /\ gout.bars[i].Close = Round2(PriceFloor)
         /\ gout.bars[i].Open > gout.bars[i].Close
         /\ gin.los[i] > 0
         /\ gin.his[i] > 0

\* C5: two invocations of RobustDataFetcher.generate_sample_data with the
\* same symbol and the same days, in separate processes, yield identical
\* series.
C5_SameSeriesAcrossProcesses ==
    \A p \in Procs, q \in Procs :
        (/\ pgen[p].called /\ pgen[q].called
         /\ pgen[p].symbol = pgen[q].symbol /\ pgen[p].days = pgen[q].days)
        => pgen[p].bars = pgen[q].bars

\* C6: with the default credential every fetch_data call that returns has
\* slept the fixed 12 seconds first, whether the real fetch succeeded, fell
\* back or failed without fallback; with a private key no call sleeps.
C6_RateLimitDelay ==
    (last.op = "fetch_data" /\ last.outcome = "return" /\ HasEvent(last, "http")) =>
        /\ (fetcher.api_key = DefaultKey => last.slept = SleepSeconds)
        /\ (fetcher.api_key = PrivateKey => last.slept = 0)

\* C7: a failure of the real fetch becomes a null result without raising,
\* and a failure to write the snapshot is never turned into a null result:
\* it propagates as an error to the caller of fetch_data.
C7_ErrorSeparation ==
    last.op = "fetch_data" =>
        /\ (last.real = NoSeries /\ ~HasEvent(last, "save_failed") => last.outcome = "return")
        /\ (HasEvent(last, "save_failed") => last.outcome = "raise")

ExpectedName(symbol, df, now) ==
    IF df.source = "synthetic" THEN SampleName(symbol, now) ELSE PlainName(symbol, now)

SavesItsResult ==
    \/ last.op = "fetch_data"
    \/ (fetcher.cls = "Sample" /\ last.op = "generate_sample_data")

\* C8: every non-null series a fetch or generate operation returns has been
\* written to <symbol>_<date>.csv when real and to <symbol>_sample_<date>.csv
\* when synthetic, so no synthetic series is stored under a real snapshot's
\* name.
C8_SnapshotNaming ==
    /\ (SavesItsResult /\ last.outcome = "return" /\ last.result # NoSeries) =>
          /\ ExpectedName(last.symbols[1], last.result, today) \in DOMAIN files
          /\ files[ExpectedName(last.symbols[1], last.result, today)] = last.result.source
    /\ \A f \in DOMAIN files : files[f] = "synthetic" => f.sample

\* the positions of the symbol list whose call produced a series
Produced(l) == {k \in DOMAIN l.symbols :
                  \E i \in DOMAIN l.events : l.events[i] = Ev(k, l.symbols[k], "data")}

\* C9: get_multiple_symbols handles the symbols one after another in input
\* order, and the keys of the mapping it returns are exactly the requested
\* symbols whose call produced a series; for RobustDataFetcher that is every
\* requested symbol.
C9_SequentialAndExactKeys ==
    (last.op = "get_multiple_symbols" /\ last.outcome = "return") =>
        /\ \A i \in DOMAIN last.events, j \in DOMAIN last.events :
              i < j => last.events[i].k <= last.events[j].k
        /\ \A i \in DOMAIN last.events :
              /\ last.events[i].k \in DOMAIN last.symbols
              /\ last.events[i].symbol = last.symbols[last.events[i].k]
        /\ \A k \in DOMAIN last.symbols : \E i \in DOMAIN last.events : last.events[i].k = k
        /\ DOMAIN last.data = {last.symbols[k] : k \in Produced(last)}
        /\ \A sym \in DOMAIN last.data : last.data[sym] # NoSeries
        /\ (fetcher.cls = "Robust" => DOMAIN last.data = Range(last.symbols))

C9_Witness ==
    /\ fetcher.cls = "Simple"
    /\ last.op = "get_multiple_symbols" /\ last.outcome = "return"
    /\ Len(last.symbols) = 2 /\ last.symbols[1] # last.symbols[2]
    /\ Produced(last) = {2}
    /\ DOMAIN last.data = {last.symbols[2]}

\* C10: a call that runs the generator leaves the state of the
\* process-global pseudo-random generator as it found it.
C10_GeneratorStateUntouched ==
    [][HasEvent(last', "generate") => rng' = rng]_vars

====
